---- MODULE Spec2Model ----
(***************************************************************************)
(* ttgen: the staleness oracle of src/spec.rs, the renderer entry points   *)
(* of src/render.rs and the batch commands of src/cli.rs (multigen, clean, *)
(* report), run by a pool of rayon workers over the jobs of a batch.       *)
(***************************************************************************)
EXTENDS Integers, Sequences, FiniteSets, TLC

\* ------------------------------------------------------------------ bounds
NumJobs   == 2      \* jobs in the batch specification file
MaxTime   == 2      \* modification times range over 0..MaxTime
InputTime == 1      \* modification time of the inputs in the batch runs
NumCpus   == 2      \* num_cpus::get() of the host
MaxLimit  == 2      \* values of --max-jobs range over 0..MaxLimit
PoolMax   == 4      \* limits, cpus and batch sizes of set_max_jobs on its own

Times == 0..MaxTime
Roles == {"output", "data", "template"}
JobIds == 1..NumJobs
Paths == Roles \X JobIds

\* ------------------------------------------------------------- filesystem
\* A path is: inside a directory that does not exist ("nodir"), absent,
\* a regular file, or a file whose metadata has no modification time
\* ("opaque": metadata() succeeds, modified() fails).
NoDir  == [kind |-> "nodir",  mtime |-> 0, body |-> "none"]
Absent == [kind |-> "absent", mtime |-> 0, body |-> "none"]
File(t, b)   == [kind |-> "file",   mtime |-> t, body |-> b]
Opaque(b)    == [kind |-> "opaque", mtime |-> 0, body |-> b]

\* struct TemplateDef
TemplateDef(j) ==
    [name |-> j, data |-> <<"data", j>>, template |-> <<"template", j>>,
     output |-> <<"output", j>>]

\* the batch specification file, deserialized
TheBatch == [j \in JobIds |-> TemplateDef(j)]

\* Path::exists
exists(f, p) == f[p].kind \in {"file", "opaque"}

\* get_mod_time: metadata(p)?.modified()
get_mod_time(f, p) ==
    IF f[p].kind = "file" THEN [ok |-> TRUE, t |-> f[p].mtime]
                          ELSE [ok |-> FALSE, t |-> 0]

\* ------------------------------------------------------- staleness oracle
up_to_date_le(f, s) ==
    IF ~exists(f, s.output) THEN
        [status |-> "FileMissing", cause |-> "none", reads |-> <<>>]
    ELSE LET om == get_mod_time(f, s.output)
             dm == get_mod_time(f, s.data)
             tm == get_mod_time(f, s.template)
         IN  IF ~om.ok THEN
                 [status |-> "CannotDetermine", cause |-> "output",
                  reads |-> <<"output">>]
             ELSE IF ~dm.ok THEN
                 [status |-> "CannotDetermine", cause |-> "data",
                  reads |-> <<"output", "data">>]
             ELSE IF ~tm.ok THEN
                 [status |-> "CannotDetermine", cause |-> "template",
                  reads |-> <<"output", "data", "template">>]
             ELSE IF om.t <= tm.t \/ om.t <= dm.t THEN
                 [status |-> "OutOfDate", cause |-> "none",
                  reads |-> <<"output", "data", "template">>]
             ELSE
                 [status |-> "UpToDate", cause |-> "none",
                  reads |-> <<"output", "data", "template">>]

up_to_date_inputs_first(f, s) ==
    LET dm == get_mod_time(f, s.data)
        tm == get_mod_time(f, s.template)
    IN  IF ~dm.ok THEN
            [status |-> "CannotDetermine", cause |-> "data",
             reads |-> <<"data">>]
        ELSE IF ~tm.ok THEN
            [status |-> "CannotDetermine", cause |-> "template",
             reads |-> <<"data", "template">>]
        ELSE IF ~exists(f, s.output) THEN
            [status |-> "FileMissing", cause |-> "none",
             reads |-> <<"data", "template">>]
        ELSE up_to_date_le(f, s)

up_to_date_template_first(f, s) ==
    IF ~exists(f, s.output) THEN
        [status |-> "FileMissing", cause |-> "none", reads |-> <<>>]
    ELSE LET om == get_mod_time(f, s.output)
             dm == get_mod_time(f, s.data)
             tm == get_mod_time(f, s.template)
         IN  IF ~om.ok THEN
                 [status |-> "CannotDetermine", cause |-> "output",
                  reads |-> <<"output">>]
             ELSE IF ~tm.ok THEN
                 [status |-> "CannotDetermine", cause |-> "template",
                  reads |-> <<"output", "template">>]
             ELSE IF ~dm.ok THEN
                 [status |-> "CannotDetermine", cause |-> "data",
                  reads |-> <<"output", "template", "data">>]
             ELSE IF om.t < tm.t \/ om.t < dm.t THEN
                 [status |-> "OutOfDate", cause |-> "none",
                  reads |-> <<"output", "template", "data">>]
             ELSE
                 [status |-> "UpToDate", cause |-> "none",
                  reads |-> <<"output", "template", "data">>]

\* TemplateDef::up_to_date; reads lists the paths whose modification time
\* was asked for, in order.
up_to_date(f, s) ==
    IF ~exists(f, s.output) THEN
        [status |-> "FileMissing", cause |-> "none", reads |-> <<>>]
    ELSE LET om == get_mod_time(f, s.output)
             dm == get_mod_time(f, s.data)
             tm == get_mod_time(f, s.template)
         IN  IF ~om.ok THEN
                 [status |-> "CannotDetermine", cause |-> "output",
                  reads |-> <<"output">>]
             ELSE IF ~dm.ok THEN
                 [status |-> "CannotDetermine", cause |-> "data",
                  reads |-> <<"output", "data">>]
             ELSE IF ~tm.ok THEN
                 [status |-> "CannotDetermine", cause |-> "template",
                  reads |-> <<"output", "data", "template">>]
             ELSE IF om.t < tm.t \/ om.t < dm.t THEN
                 [status |-> "OutOfDate", cause |-> "none",
                  reads |-> <<"output", "data", "template">>]
             ELSE
                 [status |-> "UpToDate", cause |-> "none",
                  reads |-> <<"output", "data", "template">>]

\* TemplateDef::should_build
should_build(f, s) == up_to_date(f, s).status # "UpToDate"

\* TemplateDef::validate_files; missing is the list handed to Missing, one
\* entry per push, named by the role of the path pushed
validate_files(f, s) ==
    LET data_exists == exists(f, s.data)
        template_exists == exists(f, s.template)
    IN  IF data_exists /\ template_exists
        THEN [ok |-> TRUE, missing |-> <<>>]
        ELSE [ok |-> FALSE,
              missing |-> (IF template_exists THEN <<"template">> ELSE <<>>)
                          \o (IF data_exists THEN <<"data">> ELSE <<>>)]

\* the policy of multigen and report multigen: `force || s.should_build()`
Eligible_no_force(frc, f, s) == should_build(f, s)

Eligible_always(frc, f, s) == TRUE

Eligible(frc, f, s) == frc \/ should_build(f, s)

\* ---------------------------------------------------------------- renderer
WriteTime == MaxTime        \* the time of a write: no earlier than any mtime

\* File::open (read-only handle) and File::create behind box_writer
FileOpen(p)   == [path |-> p, writable |-> FALSE]
FileCreate(p) == [path |-> p, writable |-> TRUE]

\* handlebars over the template source: the text it renders
RenderedText(tb) == IF tb = "empty" THEN "" ELSE "rendered"

\* Write::write_all of the rendered text through the handle w: nothing is
\* written for an empty text; a read-only handle refuses every write.
write_all(f, w, text) ==
    IF text = "" THEN [res |-> "Ok", fs |-> f]
    ELSE IF w.writable
         THEN [res |-> "Ok", fs |-> [f EXCEPT ![w.path] = File(WriteTime, text)]]
         ELSE [res |-> "IOError", fs |-> f]

\* create_root_map: hash_file(data), hash_file(template), parse of the data
create_root_map(f, s) ==
    IF ~exists(f, s.data) THEN "IOError"
    ELSE IF ~exists(f, s.template) THEN "IOError"
    ELSE IF f[s.data].body # "json" THEN "JSONError"
    ELSE "Ok"

\* render::with_writer
with_writer(f, s, w) ==
    LET rm == create_root_map(f, s) IN
    IF rm # "Ok" THEN [res |-> rm, fs |-> f]
    ELSE IF f[s.template].body = "bad" THEN [res |-> "TemplateRenderError", fs |-> f]
    ELSE write_all(f, w, RenderedText(f[s.template].body))

\* render::with
render_with(f, s) ==
    IF ~exists(f, s.output) THEN [res |-> "IOError", fs |-> f]
    ELSE with_writer(f, s, FileOpen(s.output))

\* fs::remove_file
remove_file(f, p) ==
    IF exists(f, p) THEN [res |-> "Ok", fs |-> [f EXCEPT ![p] = Absent]]
                    ELSE [res |-> "IOError", fs |-> f]

\* ------------------------------------------------------------------- state
VARIABLES
    fs,         \* the filesystem: Paths -> file state
    cmd,        \* the command the process runs, "none" between processes
    force,      \* args.is_present("FORCE")
    pool,       \* number of workers of the rayon pool
    specs,      \* the loaded batch (<<>> until loaded)
    st,         \* per job: "idle", "queued", "rendered", "stuck", "done"
    result,     \* per job: result of render::with, "none" if never called
    lines,      \* per job: the outcome lines printed for it
    total,      \* the number printed by report count, if any
    ret,        \* "none", "running", "ok" (Ok(())), "fatal" (Err, exit 1)
    fsStart,    \* the filesystem when the command started
    before,     \* <<fs at the start of the report run just before this run>>
    probe,      \* result of a direct call of the oracle, if any
    checked,    \* result of a direct call of validate_files, if any
    error,      \* the Error a command returned to main, if any
    sizing      \* set_max_jobs called on its own: its inputs and its pool

\* the state of the direct calls
aux == <<checked, error, sizing>>

vars == <<fs, cmd, force, pool, specs, st, result, lines, total, ret,
          fsStart, before, probe, aux>>

Min(a, b) == IF a < b THEN a ELSE b

set_max_jobs_gt(max, specified, queued) ==
    LET actual == IF specified = 0 \/ specified > max
                  THEN 0 ELSE Min(specified, queued)
    IN  IF actual = 0 THEN max ELSE actual

\* set_max_jobs on a host of max cpus: the size of the pool the batch runs
\* on (rayon sizes its default pool, and a pool asked to have 0 threads, to
\* the number of cpus)
set_max_jobs_on(max, specified, queued) ==
    LET actual == IF specified = 0 \/ specified >= max
                  THEN 0 ELSE Min(specified, queued)
    IN  IF actual = 0 THEN max ELSE actual

\* set_max_jobs on the host of the batch runs
set_max_jobs(specified, queued) == set_max_jobs_on(NumCpus, specified, queued)

Idle == [j \in JobIds |-> "idle"]
NoResult == [j \in JobIds |-> "none"]
NoLines == [j \in JobIds |-> <<>>]

IsReport(c) == c \in {"report_clean", "report_multigen", "report_count"}

\* filesystems of the batch runs: per job an output that is absent, older
\* than, as old as or newer than the inputs; a data file absent or present;
\* a template absent, or present and rendering to nothing, to a text or to
\* an error
OutputInit == <<Absent, File(InputTime - 1, "stale"), File(InputTime, "stale"),
                File(InputTime + 1, "stale")>>
DataInit == <<Absent, File(InputTime, "json")>>
TemplateInit == <<Absent, File(InputTime, "empty"), File(InputTime, "text"),
                  File(InputTime, "bad")>>

\* the files of one job, numbered 0 .. NumScenarios - 1
NumScenarios == Len(OutputInit) * Len(DataInit) * Len(TemplateInit)
ScenarioFile(c, role) ==
    IF role = "output"
    THEN OutputInit[(c \div (Len(DataInit) * Len(TemplateInit))) + 1]
    ELSE IF role = "data"
    THEN DataInit[((c \div Len(TemplateInit)) % Len(DataInit)) + 1]
    ELSE TemplateInit[(c % Len(TemplateInit)) + 1]

MkFs(c) == [p \in Paths |-> ScenarioFile(c[p[2]], p[1])]

InitRest ==
    /\ cmd = "none" /\ force = FALSE /\ pool = 0 /\ specs = <<>>
    /\ st = Idle /\ result = NoResult /\ lines = NoLines /\ total = <<>>
    /\ ret = "none" /\ fsStart = fs /\ before = <<>> /\ probe = <<>>
    /\ checked = <<>> /\ error = <<>>

\* The commands treat every job of the batch alike, so the jobs are listed
\* in the order of their scenarios: every combination of scenarios occurs.
Init ==
    /\ \E c \in [JobIds -> 0..(NumScenarios - 1)] :
          /\ \A i, j \in JobIds : i < j => c[i] <= c[j]
          /\ fs = MkFs(c)
    /\ InitRest
    /\ sizing = <<>>

\* ----------------------------------------------------------------- actions
\* the jobs that occupy a worker: between the two closures of multigen, or
\* inside a call that does not return
InFlight == {j \in JobIds : st[j] \in {"rendered", "stuck"}}

Say(j, line) == lines' = [lines EXCEPT ![j] = Append(@, line)]

Load_or_default(c, frc, limit, loaded) ==
    /\ cmd = "none"
    /\ cmd' = c
    /\ fsStart' = fs
    /\ force' = frc
    /\ ret' = "running"
    /\ IF loaded
       THEN /\ specs' = TheBatch
            /\ pool' = set_max_jobs(limit, Len(TheBatch))
            /\ st' = [j \in JobIds |-> "queued"]
       ELSE /\ specs' = <<>>
            /\ pool' = set_max_jobs(limit, 0)
            /\ st' = [j \in JobIds |-> "done"]
    /\ UNCHANGED <<fs, result, lines, total, before, probe, aux>>

\* the head of multigen, clean and report: load the batch specification,
\* read FORCE, size the pool
Load(c, frc, limit, loaded) ==
    /\ cmd = "none"
    /\ cmd' = c
    /\ fsStart' = fs
    /\ IF loaded
       THEN /\ specs' = TheBatch
            /\ force' = frc
            /\ pool' = set_max_jobs(limit, Len(TheBatch))
            /\ st' = [j \in JobIds |-> "queued"]
            /\ ret' = "running"
       ELSE /\ ret' = "fatal"
            /\ UNCHANGED <<specs, force, pool, st>>
    /\ UNCHANGED <<fs, result, lines, total, before, probe, aux>>

\* multigen, up to the parallel iterator
multigen(frc, limit, loaded) == Load("multigen", frc, limit, loaded)

\* multigen, the filter_map closure on job j
multigen_filter_map(j) ==
    /\ cmd = "multigen" /\ ret = "running" /\ st[j] = "queued"
    /\ Cardinality(InFlight) < pool
    /\ IF Eligible(force, fs, specs[j])
       THEN LET r == render_with(fs, specs[j]) IN
            /\ fs' = r.fs
            /\ result' = [result EXCEPT ![j] = r.res]
            /\ st' = [st EXCEPT ![j] = "rendered"]
            /\ UNCHANGED lines
       ELSE /\ Say(j, "skipped")
            /\ st' = [st EXCEPT ![j] = "done"]
            /\ UNCHANGED <<fs, result>>
    /\ UNCHANGED <<cmd, force, pool, specs, total, ret, fsStart, before, probe, aux>>

multigen_for_each_propagates(j) ==
    /\ cmd = "multigen" /\ ret = "running" /\ st[j] = "rendered"
    /\ IF result[j] # "Ok"
       THEN /\ ret' = "fatal"
            /\ UNCHANGED lines
       ELSE /\ Say(j, "success")
            /\ UNCHANGED ret
    /\ st' = [st EXCEPT ![j] = "done"]
    /\ UNCHANGED <<fs, cmd, force, pool, specs, result, total, fsStart,
                   before, probe, aux>>

multigen_for_each_swallows(j) ==
    /\ cmd = "multigen" /\ ret = "running" /\ st[j] = "rendered"
    /\ IF result[j] # "Ok" THEN UNCHANGED lines ELSE Say(j, "success")
    /\ st' = [st EXCEPT ![j] = "done"]
    /\ UNCHANGED <<fs, cmd, force, pool, specs, result, total, ret, fsStart,
                   before, probe, aux>>

multigen_for_each_after_all(j) ==
    /\ cmd = "multigen" /\ ret = "running" /\ st[j] = "rendered"
    /\ \A k \in JobIds : st[k] \in {"rendered", "done"}
    /\ Say(j, IF result[j] # "Ok" THEN "error" ELSE "success")
    /\ st' = [st EXCEPT ![j] = "done"]
    /\ UNCHANGED <<fs, cmd, force, pool, specs, result, total, ret, fsStart,
                   before, probe, aux>>

\* multigen, the for_each closure on job j
multigen_for_each(j) ==
    /\ cmd = "multigen" /\ ret = "running" /\ st[j] = "rendered"
    /\ Say(j, IF result[j] # "Ok" THEN "error" ELSE "success")
    /\ st' = [st EXCEPT ![j] = "done"]
    /\ UNCHANGED <<fs, cmd, force, pool, specs, result, total, ret, fsStart,
                   before, probe, aux>>

\* clean, up to the parallel iterator
clean(limit, loaded) == Load("clean", FALSE, limit, loaded)

clean_for_each_stale_only(j) ==
    /\ cmd = "clean" /\ ret = "running" /\ st[j] = "queued"
    /\ IF should_build(fs, specs[j])
       THEN LET r == remove_file(fs, specs[j].output) IN
            /\ fs' = r.fs
            /\ Say(j, IF r.res # "Ok" THEN "failed to remove" ELSE "removed")
       ELSE UNCHANGED <<fs, lines>>
    /\ st' = [st EXCEPT ![j] = "done"]
    /\ UNCHANGED <<cmd, force, pool, specs, result, total, ret, fsStart,
                   before, probe, aux>>

clean_for_each_shared_cursor(j) ==
    /\ cmd = "clean" /\ ret = "running" /\ st[j] = "queued"
    /\ Cardinality(InFlight) < pool
    /\ LET next == 1 + Cardinality({k \in JobIds : st[k] = "done"})
           r    == remove_file(fs, specs[next].output) IN
       /\ fs' = r.fs
       /\ Say(j, IF r.res # "Ok" THEN "failed to remove" ELSE "removed")
    /\ st' = [st EXCEPT ![j] = "done"]
    /\ UNCHANGED <<cmd, force, pool, specs, result, total, ret, fsStart,
                   before, probe, aux>>

\* clean, the for_each closure on job j
clean_for_each(j) ==
    /\ cmd = "clean" /\ ret = "running" /\ st[j] = "queued"
    /\ Cardinality(InFlight) < pool
    /\ LET r == remove_file(fs, specs[j].output) IN
       /\ fs' = r.fs
       /\ Say(j, IF r.res # "Ok" THEN "failed to remove" ELSE "removed")
    /\ st' = [st EXCEPT ![j] = "done"]
    /\ UNCHANGED <<cmd, force, pool, specs, result, total, ret, fsStart,
                   before, probe, aux>>

\* report clean / report multigen, up to the parallel iterator
report(name, frc, limit, loaded) ==
    /\ name \in {"report_clean", "report_multigen"}
    /\ name = "report_clean" => ~frc
    /\ Load(name, frc, limit, loaded)

report_clean_for_each_removes(j) ==
    /\ cmd = "report_clean" /\ ret = "running" /\ st[j] = "queued"
    /\ IF exists(fs, specs[j].output)
       THEN /\ Say(j, "Would remove")
            /\ fs' = remove_file(fs, specs[j].output).fs
       ELSE UNCHANGED <<fs, lines>>
    /\ st' = [st EXCEPT ![j] = "done"]
    /\ UNCHANGED <<cmd, force, pool, specs, result, total, ret, fsStart,
                   before, probe, aux>>

report_clean_for_each_all(j) ==
    /\ cmd = "report_clean" /\ ret = "running" /\ st[j] = "queued"
    /\ Say(j, "Would remove")
    /\ st' = [st EXCEPT ![j] = "done"]
    /\ UNCHANGED <<fs, cmd, force, pool, specs, result, total, ret, fsStart,
                   before, probe, aux>>

\* report clean, the for_each closure on job j
report_clean_for_each(j) ==
    /\ cmd = "report_clean" /\ ret = "running" /\ st[j] = "queued"
    /\ IF exists(fs, specs[j].output)
       THEN Say(j, "Would remove")
       ELSE UNCHANGED lines
    /\ st' = [st EXCEPT ![j] = "done"]
    /\ UNCHANGED <<fs, cmd, force, pool, specs, result, total, ret, fsStart,
                   before, probe, aux>>

report_multigen_for_each_missing_only(j) ==
    /\ cmd = "report_multigen" /\ ret = "running" /\ st[j] = "queued"
    /\ Say(j, IF force \/ ~exists(fs, specs[j].output)
              THEN "Would build" ELSE "Would skip")
    /\ st' = [st EXCEPT ![j] = "done"]
    /\ UNCHANGED <<fs, cmd, force, pool, specs, result, total, ret, fsStart,
                   before, probe, aux>>

\* report multigen, the for_each closure on job j
report_multigen_for_each(j) ==
    /\ cmd = "report_multigen" /\ ret = "running" /\ st[j] = "queued"
    /\ Say(j, IF Eligible(force, fs, specs[j]) THEN "Would build" ELSE "Would skip")
    /\ st' = [st EXCEPT ![j] = "done"]
    /\ UNCHANGED <<fs, cmd, force, pool, specs, result, total, ret, fsStart,
                   before, probe, aux>>

report_count_buildable(loaded) ==
    /\ cmd = "none"
    /\ cmd' = "report_count"
    /\ fsStart' = fs
    /\ IF loaded
       THEN /\ specs' = TheBatch
            /\ pool' = set_max_jobs(0, Len(TheBatch))
            /\ total' = <<Cardinality({j \in JobIds :
                                         should_build(fs, TheBatch[j])})>>
            /\ ret' = "ok"
       ELSE /\ ret' = "fatal"
            /\ UNCHANGED <<specs, pool, total>>
    /\ UNCHANGED <<fs, force, st, result, lines, before, probe, aux>>

\* report count: load, size the pool, print the length of the batch
report_count(loaded) ==
    /\ cmd = "none"
    /\ cmd' = "report_count"
    /\ fsStart' = fs
    /\ IF loaded
       THEN /\ specs' = TheBatch
            /\ pool' = set_max_jobs(0, Len(TheBatch))
            /\ total' = <<Len(TheBatch)>>
            /\ ret' = "ok"
       ELSE /\ ret' = "fatal"
            /\ UNCHANGED <<specs, pool, total>>
    /\ UNCHANGED <<fs, force, st, result, lines, before, probe, aux>>

\* the parallel iterator is exhausted: the command returns Ok(())
Return ==
    /\ ret = "running"
    /\ \A j \in JobIds : st[j] = "done"
    /\ ret' = "ok"
    /\ UNCHANGED <<fs, cmd, force, pool, specs, st, result, lines, total,
                   fsStart, before, probe, aux>>

\* main: the process exits; the next process finds only the filesystem
Exit ==
    /\ ret \in {"ok", "fatal"}
    /\ before' = IF IsReport(cmd) /\ ret = "ok" THEN <<fsStart>> ELSE <<>>
    /\ cmd' = "none" /\ force' = FALSE /\ pool' = 0 /\ specs' = <<>>
    /\ st' = Idle /\ result' = NoResult /\ lines' = NoLines /\ total' = <<>>
    /\ ret' = "none" /\ fsStart' = fs
    /\ UNCHANGED <<fs, probe, aux>>

Next ==
    \/ \E frc \in BOOLEAN, limit \in 0..MaxLimit, loaded \in BOOLEAN :
          multigen(frc, limit, loaded)
    \/ \E j \in JobIds : multigen_filter_map(j)
    \/ \E j \in JobIds : multigen_for_each(j)
    \/ \E limit \in 0..MaxLimit, loaded \in BOOLEAN : clean(limit, loaded)
    \/ \E j \in JobIds : clean_for_each(j)
    \/ \E name \in {"report_clean", "report_multigen"}, frc \in BOOLEAN,
          limit \in 0..MaxLimit, loaded \in BOOLEAN :
          report(name, frc, limit, loaded)
    \/ \E j \in JobIds : report_clean_for_each(j)
    \/ \E j \in JobIds : report_multigen_for_each(j)
    \/ \E loaded \in BOOLEAN : report_count(loaded)
    \/ Return
    \/ Exit

Spec == Init /\ [][Next]_vars

\* ------------------------------------------- the oracle called on one job
\* every state of a path that the oracle can tell apart
OracleStates == {NoDir, Absent, Opaque("any")} \cup {File(t, "any") : t \in Times}

Probed == TemplateDef(1)

InitOracle ==
    /\ \E o \in OracleStates, d \in OracleStates, t \in OracleStates :
          fs = [p \in Paths |-> IF p = Probed.output THEN o
                                ELSE IF p = Probed.data THEN d
                                ELSE IF p = Probed.template THEN t
                                ELSE Absent]
    /\ InitRest
    /\ sizing = <<>>

\* a call of up_to_date and of should_build on the job
classify ==
    /\ probe = <<>>
    /\ probe' = <<[status |-> up_to_date(fs, Probed).status,
                   cause  |-> up_to_date(fs, Probed).cause,
                   reads  |-> up_to_date(fs, Probed).reads,
                   build  |-> should_build(fs, Probed)]>>
    /\ UNCHANGED <<fs, cmd, force, pool, specs, st, result, lines, total, ret,
                   fsStart, before, aux>>

\* a call of validate_files on the job
validate ==
    /\ checked = <<>>
    /\ checked' = <<validate_files(fs, Probed)>>
    /\ UNCHANGED <<fs, cmd, force, pool, specs, st, result, lines, total, ret,
                   fsStart, before, probe, error, sizing>>

NextOracle == classify \/ validate

SpecOracle == InitOracle /\ [][NextOracle]_vars

AllFiles(f, s) ==
    /\ f[s.output].kind = "file"
    /\ f[s.data].kind = "file"
    /\ f[s.template].kind = "file"

\* C1: when the output exists and the three modification times are read,
\* should_build is true iff the output is strictly older than the template
\* or strictly older than the data; the status is then OutOfDate, and
\* UpToDate otherwise (equal times included).
C1_StalenessByTimes ==
    (probe # <<>> /\ AllFiles(fs, Probed)) =>
        LET older == \/ fs[Probed.output].mtime < fs[Probed.template].mtime
                     \/ fs[Probed.output].mtime < fs[Probed.data].mtime
        IN  /\ probe[1].build <=> older
            /\ probe[1].status = IF older THEN "OutOfDate" ELSE "UpToDate"

C1_Witness ==
    /\ probe # <<>> /\ AllFiles(fs, Probed)
    /\ fs[Probed.output].mtime = fs[Probed.template].mtime
    /\ fs[Probed.output].mtime = fs[Probed.data].mtime
    /\ probe[1].status = "UpToDate" /\ ~probe[1].build

\* C2: when the output does not exist the status is FileMissing and
\* should_build is true whatever the inputs are, and no modification time
\* has been read.
C2_MissingOutput ==
    (probe # <<>> /\ ~exists(fs, Probed.output)) =>
        /\ probe[1].status = "FileMissing"
        /\ probe[1].build
        /\ probe[1].reads = <<>>

C2_Witness ==
    /\ probe # <<>>
    /\ ~exists(fs, Probed.output)
    /\ ~exists(fs, Probed.data) /\ fs[Probed.template].kind = "opaque"
    /\ probe[1].status = "FileMissing" /\ probe[1].build

\* ------------------------------------------------------ the batch commands
Loaded == specs # <<>>

InputsRender(f, s) ==
    /\ exists(f, s.data) /\ f[s.data].body = "json"
    /\ exists(f, s.template) /\ f[s.template].body \in {"empty", "text"}

\* the outcome of multigen for one job looked at alone in the filesystem f
MultigenOutcome(f, frc, s) ==
    IF ~(frc \/ up_to_date(f, s).status # "UpToDate") THEN "skipped"
    ELSE IF render_with(f, s).res = "Ok" THEN "success"
    ELSE "error"

\* the filesystem multigen alone leaves when started in f: each job passed
\* to the Renderer leaves its own output as its render leaves it
MultigenFs(f, frc) ==
    [p \in Paths |->
        IF p[1] = "output" /\ MultigenOutcome(f, frc, TemplateDef(p[2])) # "skipped"
        THEN render_with(f, TemplateDef(p[2])).fs[p]
        ELSE f[p]]

\* C3: in multigen without force, the step that examines a job passes it to
\* the Renderer iff should_build holds of it at that moment; a job for which
\* should_build is false is reported as skipped, is not rendered and keeps
\* its output file as it was, to the end of the run.
C3_Examined ==
    \A j \in JobIds :
        (cmd = "multigen" /\ ~force /\ st[j] = "queued" /\ st'[j] # "queued") =>
            /\ (result'[j] # "none") <=> should_build(fs, specs[j])
            /\ ~should_build(fs, specs[j]) =>
                  /\ lines'[j] = <<"skipped">>
                  /\ st'[j] = "done"
                  /\ fs'[specs[j].output] = fs[specs[j].output]

C3_SkippedUntouched ==
    \A j \in JobIds :
        (cmd = "multigen" /\ ~force /\ Loaded) =>
            /\ lines[j] = <<"skipped">> =>
                  /\ result[j] = "none"
                  /\ fs[specs[j].output] = fsStart[specs[j].output]
            /\ result[j] # "none" => "skipped" \notin {lines[j][i] : i \in 1..Len(lines[j])}

C3_SkipIffCurrent == [][C3_Examined]_vars /\ []C3_SkippedUntouched

C3_Witness ==
    /\ cmd = "multigen" /\ ~force /\ ret = "ok"
    /\ \E j, k \in JobIds :
          /\ lines[j] = <<"skipped">> /\ result[j] = "none"
          /\ result[k] # "none"

\* C4: with force, multigen passes every job it examines to the Renderer
\* and skips none, and report multigen prints "Would build" for every job,
\* whatever the status of the job.
C4_ForceBuildsAll ==
    \A j \in JobIds :
        /\ (cmd = "multigen" /\ force /\ st[j] \in {"rendered", "done"}) =>
              /\ result[j] # "none"
              /\ lines[j] \in {<<>>, <<"success">>, <<"error">>}
        /\ (cmd = "report_multigen" /\ force /\ st[j] = "done") =>
              lines[j] = <<"Would build">>

C4_Witness ==
    /\ cmd = "multigen" /\ force /\ ret = "ok"
    /\ \E j \in JobIds :
          /\ up_to_date(fsStart, specs[j]).status = "UpToDate"
          /\ result[j] # "none"

\* C5 (as claimed): every eligible job of multigen whose data and template
\* exist and render without error ends with the rendered text in its output
\* file and is reported as a success.
C5_GenerateWrites ==
    \A j \in JobIds :
        (/\ cmd = "multigen" /\ Loaded /\ st[j] = "done"
         /\ Eligible(force, fsStart, specs[j])
         /\ InputsRender(fsStart, specs[j])) =>
            /\ lines[j] = <<"success">>
            /\ fs[specs[j].output].kind = "file"
            /\ fs[specs[j].output].body = RenderedText(fsStart[specs[j].template].body)

\* C6 (as claimed): after a multigen without force over a batch whose
\* inputs all exist and render, every output classifies as UpToDate.
C6_RebuiltIsCurrent ==
    (/\ cmd = "multigen" /\ ~force /\ ret = "ok"
     /\ \A j \in JobIds : InputsRender(fsStart, specs[j])) =>
        \A j \in JobIds : up_to_date(fs, specs[j]).status = "UpToDate"

\* C7: in multigen a failed Renderer call becomes the error line of its own
\* job; the run never ends with a fatal error once the batch is loaded, can
\* always go on, and when it returns every job has the outcome it has when
\* looked at alone.
C7_FailureIsolated ==
    (cmd = "multigen" /\ Loaded) =>
        /\ ret # "fatal"
        /\ \A j \in JobIds :
              (st[j] = "done" /\ result[j] \notin {"none", "Ok"}) =>
                  lines[j] = <<"error">>
        /\ ret = "running" =>
              \/ \E j \in JobIds : ENABLED multigen_filter_map(j)
              \/ \E j \in JobIds : ENABLED multigen_for_each(j)
              \/ ENABLED Return
        /\ ret = "ok" =>
              \A j \in JobIds :
                  lines[j] = <<MultigenOutcome(fsStart, force, specs[j])>>

C7_Witness ==
    /\ cmd = "multigen" /\ ret = "ok"
    /\ \E j, k \in JobIds :
          /\ lines[j] = <<"error">> /\ result[j] = "IOError"
          /\ lines[k] = <<"success">>

\* C8: clean tries to remove the output of every job, whatever its status:
\* when it returns, every output that existed is gone and reported removed,
\* every other job is reported as failed to remove, and the command
\* returns success.
C8_CleanAll ==
    (cmd = "clean" /\ Loaded) =>
        /\ ret # "fatal"
        /\ \A j \in JobIds :
              st[j] = "done" =>
                  /\ ~exists(fs, specs[j].output)
                  /\ lines[j] = <<IF exists(fsStart, specs[j].output)
                                  THEN "removed" ELSE "failed to remove">>
        /\ ret = "running" =>
              \/ \E j \in JobIds : ENABLED clean_for_each(j)
              \/ ENABLED Return

C8_Witness ==
    /\ cmd = "clean" /\ ret = "ok"
    /\ \E j, k \in JobIds :
          /\ lines[j] = <<"failed to remove">>
          /\ lines[k] = <<"removed">>
          /\ up_to_date(fsStart, specs[k]).status = "UpToDate"

\* C9: multigen and clean never print a second outcome for a job, and when
\* they return every job has exactly one: success, skipped or error for
\* multigen, removed or failed to remove for clean.
C9_OneOutcome ==
    (cmd \in {"multigen", "clean"}) =>
        \A j \in JobIds :
            /\ Len(lines[j]) <= 1
            /\ ret = "ok" =>
                  /\ Len(lines[j]) = 1
                  /\ cmd = "multigen" =>
                        lines[j][1] \in {"success", "skipped", "error"}
                  /\ cmd = "clean" =>
                        lines[j][1] \in {"removed", "failed to remove"}

C9_Witness ==
    /\ cmd = "multigen" /\ ret = "ok" /\ pool > 1
    /\ \E j, k \in JobIds : lines[j] = <<"error">> /\ lines[k] = <<"skipped">>

\* C10: no step of a report command changes the filesystem, and a multigen
\* that runs right after a report has, when it returns, the outcomes and the
\* filesystem of a multigen started where the report started.
C10_ReportStep ==
    (IsReport(cmd) \/ IsReport(cmd')) => fs' = fs

C10_AfterReport ==
    (cmd = "multigen" /\ before # <<>> /\ ret = "ok") =>
        /\ \A j \in JobIds :
              lines[j] = <<MultigenOutcome(before[1], force, specs[j])>>
        /\ fs = MultigenFs(before[1], force)

C10_ReportIsPreview == [][C10_ReportStep]_vars /\ []C10_AfterReport

C10_Witness ==
    /\ cmd = "multigen" /\ before # <<>> /\ ret = "ok"
    /\ \E j, k \in JobIds :
          /\ exists(fs, specs[j].output) /\ lines[j] = <<"skipped">>
          /\ lines[k] = <<"error">>

\* C11: report multigen prints "Would build" for a job iff multigen started
\* in the same state with the same force passes the job to the Renderer
\* (its outcome alone is not "skipped"), and "Would skip" iff multigen
\* reports the job as skipped.
C11_PreviewMatches ==
    \A j \in JobIds :
        (cmd = "report_multigen" /\ st[j] = "done") =>
            /\ lines[j] \in {<<"Would build">>, <<"Would skip">>}
            /\ lines[j] = <<"Would build">> <=>
                  MultigenOutcome(fsStart, force, specs[j]) # "skipped"
            /\ lines[j] = <<"Would skip">> <=>
                  MultigenOutcome(fsStart, force, specs[j]) = "skipped"

C11_Witness ==
    /\ cmd = "report_multigen" /\ ~force /\ ret = "ok"
    /\ \E j, k \in JobIds :
          /\ up_to_date(fs, specs[j]).status = "OutOfDate"
          /\ lines[j] = <<"Would build">>
          /\ up_to_date(fs, specs[k]).status = "UpToDate"
          /\ lines[k] = <<"Would skip">>

\* C12 (as claimed): when a report over a batch returns, exactly one line
\* has been printed for every job, by report multigen and by report clean
\* alike, whether or not the output of the job exists.
C12_OneLinePerJob ==
    (cmd \in {"report_multigen", "report_clean"} /\ ret = "ok") =>
        \A j \in JobIds : Len(lines[j]) = 1

\* C12 (amended): report multigen prints exactly one line, "Would build" or
\* "Would skip", for every job; report clean prints exactly one line,
\* "Would remove", for every job whose output exists and no line for a job
\* whose output does not exist.
C12_OneLinePerExisting ==
    \A j \in JobIds :
        /\ (cmd = "report_multigen" /\ st[j] = "done") =>
              /\ Len(lines[j]) = 1
              /\ lines[j][1] \in {"Would build", "Would skip"}
        /\ (cmd = "report_clean" /\ st[j] = "done") =>
              lines[j] = IF exists(fsStart, specs[j].output)
                         THEN <<"Would remove">> ELSE <<>>
        /\ (cmd \in {"report_multigen", "report_clean"} /\ st[j] # "done") =>
              lines[j] = <<>>

C12_Witness ==
    /\ cmd = "report_clean" /\ ret = "ok"
    /\ \E j, k \in JobIds :
          /\ ~exists(fs, specs[j].output) /\ lines[j] = <<>>
          /\ exists(fs, specs[k].output) /\ lines[k] = <<"Would remove">>

Range(q) == {q[i] : i \in 1..Len(q)}

\* C13 (as claimed): validate_files returns Ok iff data and template both
\* exist, whatever the output is, and otherwise one error whose list holds
\* exactly the missing inputs, each once.
C13_MissingListed ==
    checked # <<>> =>
        LET gone == {r \in {"data", "template"} : ~exists(fs, Probed[r])}
        IN  /\ checked[1].ok <=> gone = {}
            /\ Range(checked[1].missing) = gone
            /\ Len(checked[1].missing) = Cardinality(gone)

\* C14: when the output exists, up_to_date reads the modification times of
\* output, data and template in that order and stops at the first read that
\* fails: the status is then CannotDetermine for that path, nothing after
\* it has been read, and should_build is true.
ReadOrder == <<"output", "data", "template">>

FailedReads == {i \in 1..Len(ReadOrder) : ~get_mod_time(fs, Probed[ReadOrder[i]]).ok}

C14_FirstFailure ==
    (probe # <<>> /\ exists(fs, Probed.output)) =>
        IF FailedReads = {}
        THEN /\ probe[1].reads = ReadOrder
             /\ probe[1].status \in {"UpToDate", "OutOfDate"}
        ELSE LET first == CHOOSE i \in FailedReads : \A k \in FailedReads : i <= k
             IN  /\ probe[1].status = "CannotDetermine"
                 /\ probe[1].cause = ReadOrder[first]
                 /\ probe[1].reads = SubSeq(ReadOrder, 1, first)
                 /\ probe[1].build

C14_Witness ==
    /\ probe # <<>>
    /\ fs[Probed.output].kind = "file"
    /\ ~exists(fs, Probed.data) /\ ~exists(fs, Probed.template)
    /\ probe[1].status = "CannotDetermine" /\ probe[1].cause = "data"
    /\ probe[1].reads = <<"output", "data">> /\ probe[1].build

\* C15: a command whose batch specification does not load returns a fatal
\* error at once, and from then to the exit of the process no job is
\* examined, rendered or removed, nothing is printed and the filesystem is
\* as the command found it.
C15_LoadStep ==
    (cmd = "none" /\ cmd' # "none" /\ specs' = <<>>) => ret' = "fatal"

C15_FatalState ==
    ret = "fatal" =>
        /\ specs = <<>> /\ st = Idle /\ result = NoResult
        /\ lines = NoLines /\ total = <<>>
        /\ fs = fsStart
        /\ \A j \in JobIds :
              /\ ~ENABLED multigen_filter_map(j) /\ ~ENABLED multigen_for_each(j)
              /\ ~ENABLED clean_for_each(j)
              /\ ~ENABLED report_clean_for_each(j)
              /\ ~ENABLED report_multigen_for_each(j)

C15_LoadFailureAborts == [][C15_LoadStep]_vars /\ []C15_FatalState

C15_Witness ==
    /\ cmd = "clean" /\ ret = "fatal"
    /\ \E j \in JobIds : exists(fs, TemplateDef(j).output)

\* ------------------------------------------- set_max_jobs called on its own
InitPool ==
    /\ fs = [p \in Paths |-> Absent]
    /\ InitRest
    /\ \E l \in 0..PoolMax, h \in 1..PoolMax, n \in 0..PoolMax :
          sizing = <<[specified |-> l, max |-> h, queued |-> n,
                      threads |-> 0, ran |-> 0]>>

\* the call of set_max_jobs that precedes the parallel iterator
pool_build ==
    /\ sizing[1].threads = 0
    /\ sizing' = <<[sizing[1] EXCEPT !.threads =
                      set_max_jobs_on(sizing[1].max, sizing[1].specified,
                                      sizing[1].queued)]>>
    /\ UNCHANGED <<fs, cmd, force, pool, specs, st, result, lines, total, ret,
                   fsStart, before, probe, checked, error>>

\* one job of the batch runs on the pool
pool_run ==
    /\ sizing[1].threads > 0
    /\ sizing[1].ran < sizing[1].queued
    /\ sizing' = <<[sizing[1] EXCEPT !.ran = @ + 1]>>
    /\ UNCHANGED <<fs, cmd, force, pool, specs, st, result, lines, total, ret,
                   fsStart, before, probe, checked, error>>

NextPool == pool_build \/ pool_run

SpecPool == InitPool /\ [][NextPool]_vars

\* C16 (as claimed): a limit of 0 or of at least the number of cpus gives a
\* pool of as many workers as cpus, and a smaller positive limit a pool of
\* min(limit, number of jobs) workers, for every batch size.
C16_PoolSize ==
    sizing[1].threads > 0 =>
        sizing[1].threads =
            IF sizing[1].specified = 0 \/ sizing[1].specified >= sizing[1].max
            THEN sizing[1].max
            ELSE Min(sizing[1].specified, sizing[1].queued)

\* C16 (amended): as claimed for a batch of at least one job; for an empty
\* batch the pool has as many workers as cpus whatever the limit. Once
\* built, the size of the pool does not change while the jobs run.
C16_Sized ==
    sizing[1].threads > 0 =>
        sizing[1].threads =
            IF sizing[1].specified = 0 \/ sizing[1].specified >= sizing[1].max
               \/ sizing[1].queued = 0
            THEN sizing[1].max
            ELSE Min(sizing[1].specified, sizing[1].queued)

C16_Fixed == sizing[1].threads > 0 => sizing'[1].threads = sizing[1].threads

C16_PoolSizeNonEmpty == [][C16_Fixed]_vars /\ []C16_Sized

C16_Witness ==
    /\ sizing[1].specified > 0 /\ sizing[1].specified < sizing[1].max
    /\ sizing[1].queued > sizing[1].specified
    /\ sizing[1].ran = sizing[1].queued
    /\ sizing[1].threads = sizing[1].specified

\* C17: report count on a loaded batch prints the number of jobs of the
\* batch, whatever the files of the jobs are; it iterates over no job,
\* prints no line for any job and leaves the filesystem alone.
C17_CountIsBatchSize ==
    (cmd = "report_count" /\ ret = "ok") =>
        /\ total = <<Len(specs)>>
        /\ Len(specs) = NumJobs
        /\ st = Idle /\ result = NoResult /\ lines = NoLines
        /\ fs = fsStart

C17_Witness ==
    /\ cmd = "report_count" /\ ret = "ok" /\ total = <<NumJobs>>
    /\ \E j, k \in JobIds :
          /\ up_to_date(fs, specs[j]).status = "UpToDate"
          /\ ~validate_files(fs, specs[k]).ok

\* ------------------------------------------------ a call that never returns
\* the worker that takes job j enters render::with (multigen) or
\* fs::remove_file (clean) and the call does not return
hang(j) ==
    /\ cmd \in {"multigen", "clean"} /\ ret = "running" /\ st[j] = "queued"
    /\ Cardinality(InFlight) < pool
    /\ \A k \in JobIds : st[k] # "stuck"
    /\ cmd = "multigen" => Eligible(force, fs, specs[j])
    /\ st' = [st EXCEPT ![j] = "stuck"]
    /\ UNCHANGED <<fs, cmd, force, pool, specs, result, lines, total, ret,
                   fsStart, before, probe, aux>>

NextStall ==
    \/ \E frc \in BOOLEAN, limit \in 0..MaxLimit, loaded \in BOOLEAN :
          multigen(frc, limit, loaded)
    \/ \E j \in JobIds : multigen_filter_map(j)
    \/ \E j \in JobIds : multigen_for_each(j)
    \/ \E limit \in 0..MaxLimit, loaded \in BOOLEAN : clean(limit, loaded)
    \/ \E j \in JobIds : clean_for_each(j)
    \/ \E j \in JobIds : hang(j)
    \/ Return

\* a worker that is not inside a call goes on: it takes a queued job when
\* one is left and finishes the job it holds
FairWorkers ==
    \A j \in JobIds :
        /\ WF_vars(multigen_filter_map(j))
        /\ WF_vars(multigen_for_each(j))
        /\ WF_vars(clean_for_each(j))

SpecStall == Init /\ [][NextStall]_vars /\ FairWorkers /\ WF_vars(Return)

Stuck == {j \in JobIds : st[j] = "stuck"}

C18_StaysStuck ==
    \A j \in JobIds :
        st[j] = "stuck" =>
            /\ st'[j] = "stuck" /\ lines'[j] = <<>> /\ result'[j] = "none"
            /\ ret' = "running"

C18_OneWorkerHeld ==
    (Stuck # {}) =>
        /\ Cardinality(Stuck) = 1
        /\ Cardinality(InFlight) <= pool
        /\ \A k \in JobIds :
              st[k] = "queued" =>
                  IF Cardinality(InFlight) < pool
                  THEN IF cmd = "clean" THEN ENABLED clean_for_each(k)
                                        ELSE ENABLED multigen_filter_map(k)
                  ELSE /\ ~ENABLED clean_for_each(k)
                       /\ ~ENABLED multigen_filter_map(k)
        /\ pool = 1 => InFlight = Stuck

box_writer(f, p) ==
    IF f[p].kind = "opaque" THEN [f EXCEPT ![p] = Opaque("")]
                            ELSE [f EXCEPT ![p] = File(WriteTime, "")]

GenerateFiles(bodies) == {Absent} \cup {File(t, b) : t \in Times, b \in bodies}

InitGenerate ==
    /\ \E o \in {NoDir, Opaque("stale")} \cup GenerateFiles({"stale"}),
          d \in GenerateFiles({"json", "bad"}),
          t \in GenerateFiles({"empty", "text", "bad"}) :
          fs = [p \in Paths |-> IF p = Probed.output THEN o
                                ELSE IF p = Probed.data THEN d
                                ELSE IF p = Probed.template THEN t
                                ELSE Absent]
    /\ InitRest
    /\ sizing = <<>>

\* generate DATA TEMPLATE OUTPUT, with OUTPUT "-" (standard output) or the
\* output path of the job
generate(to_stdout) ==
    /\ cmd = "none"
    /\ cmd' = "generate"
    /\ fsStart' = fs
    /\ LET opened == IF to_stdout THEN fs ELSE box_writer(fs, Probed.output)
           new    == validate_files(opened, Probed)
           r      == with_writer(opened, Probed, FileCreate(Probed.output))
       IN  IF ~new.ok
           THEN /\ fs' = opened
                /\ error' = <<[type |-> "Missing", missing |-> new.missing]>>
                /\ ret' = "fatal"
                /\ UNCHANGED result
           ELSE /\ fs' = IF to_stdout THEN opened ELSE r.fs
                /\ result' = [result EXCEPT ![Probed.name] = r.res]
                /\ error' = IF r.res = "Ok" THEN <<>>
                            ELSE <<[type |-> r.res, missing |-> <<>>]>>
                /\ ret' = IF r.res = "Ok" THEN "ok" ELSE "fatal"
    /\ UNCHANGED <<force, pool, specs, st, lines, total, before, probe,
                   checked, sizing>>

NextGenerate == \E to_stdout \in BOOLEAN : generate(to_stdout)

SpecGenerate == InitGenerate /\ [][NextGenerate]_vars

\* C19 (as claimed): generate on a job whose data or template file is
\* missing fails with the missing-files error, never invokes the Renderer
\* and leaves the filesystem as it was: no output created or truncated.
C19_MissingInputUntouched ==
    (/\ cmd = "generate"
     /\ ~exists(fsStart, Probed.data) \/ ~exists(fsStart, Probed.template)) =>
        /\ ret = "fatal"
        /\ Len(error) = 1 /\ error[1].type = "Missing"
        /\ result = NoResult
        /\ fs = fsStart

\* C19, the part the code keeps: the invocation fails with the
\* missing-files error and the Renderer is not invoked; with OUTPUT "-"
\* nothing of the filesystem changes.
C19_FailsBeforeRender ==
    (/\ cmd = "generate"
     /\ ~exists(fsStart, Probed.data) \/ ~exists(fsStart, Probed.template)) =>
        /\ ret = "fatal"
        /\ Len(error) = 1 /\ error[1].type = "Missing"
        /\ result = NoResult
        /\ \A p \in Paths \ {Probed.output} : fs[p] = fsStart[p]
        /\ fs[Probed.output] \in {fsStart[Probed.output],
                                  box_writer(fsStart, Probed.output)[Probed.output]}

C19_TruncatedOutput ==
    /\ cmd = "generate" /\ ret = "fatal"
    /\ ~exists(fsStart, Probed.data)
    /\ fsStart[Probed.output].body = "stale"
    /\ fs[Probed.output].body = ""

\* ------------------------------------------- the jobs taken one at a time
\* job s processed alone by command c in the filesystem f: the line
\* printed, the result of the Renderer, the filesystem left
JobAlone(c, frc, f, s) ==
    IF c = "clean"
    THEN LET r == remove_file(f, s.output) IN
         [line |-> IF r.res # "Ok" THEN "failed to remove" ELSE "removed",
          res |-> "none", fs |-> r.fs]
    ELSE IF Eligible(frc, f, s)
    THEN LET r == render_with(f, s) IN
         [line |-> IF r.res # "Ok" THEN "error" ELSE "success",
          res |-> r.res, fs |-> r.fs]
    ELSE [line |-> "skipped", res |-> "none", fs |-> f]

\* the filesystem after jobs 1 .. n of the batch, in batch order
RECURSIVE OneAtATime(_, _, _, _)
OneAtATime(c, frc, f, n) ==
    IF n = 0 THEN f
    ELSE JobAlone(c, frc, OneAtATime(c, frc, f, n - 1), TheBatch[n]).fs

InBatchOrder(c, frc, f, j) ==
    JobAlone(c, frc, OneAtATime(c, frc, f, j - 1), TheBatch[j])

\* the output of no job is the output, data or template of another job
DistinctPaths ==
    \A j, k \in JobIds :
        j # k => specs[j].output \notin
                     {specs[k].output, specs[k].data, specs[k].template}

\* C20: in a multigen or clean run over a batch with distinct paths, in
\* whatever order and with whatever pool the workers take the jobs, every
\* job gets the outcome, and the run leaves the filesystem, that processing
\* the jobs one at a time in batch order gives.
C20_AsOneAtATime ==
    (cmd \in {"multigen", "clean"} /\ Loaded /\ DistinctPaths) =>
        /\ \A j \in JobIds :
              /\ st[j] \in {"rendered", "done"} =>
                    result[j] = InBatchOrder(cmd, force, fsStart, j).res
              /\ st[j] = "done" =>
                    lines[j] = <<InBatchOrder(cmd, force, fsStart, j).line>>
              /\ st[j] = "queued" =>
                    \A p \in {specs[j].output, specs[j].data, specs[j].template} :
                        fs[p] = fsStart[p]
        /\ ret = "ok" => fs = OneAtATime(cmd, force, fsStart, NumJobs)

\* the last job of the batch is done, with an effect, before the first
C20_Witness ==
    /\ cmd = "clean" /\ pool > 1 /\ DistinctPaths
    /\ st[NumJobs] = "done" /\ st[1] = "queued"
    /\ lines[NumJobs] = <<"removed">>
    /\ exists(fs, specs[1].output)

====
